---- MODULE Spec2Model ----
(***************************************************************************)
(* Model of src/pmdbmapper.py: the MDblist rating normalizer               *)
(* (MovieTVCollector.parse_mdblist_ratings) and the reconciliation and     *)
(* submission flow of MovieTVCollector.process_item.                       *)
(*                                                                         *)
(* Numbers are fixed-point integers in thousandths: 8100 is 8.1, 81250 is  *)
(* 81.25, 2 is 0.002.  Every number of the model's domain is a binary      *)
(* float whose decimal ties (81.25) are exact, so Python's round(x, 1) is  *)
(* round-half-to-even on the decimal value.                                *)
(***************************************************************************)
EXTENDS Integers, Sequences, FiniteSets, TLC

VARIABLES
    pc,        \* position of the running call
    data,      \* parse_mdblist_ratings: the decoded payload (argument)
    result,    \* parse_mdblist_ratings: what the call produced
    \* the locals of process_item
    media_type, results, tmdb_id, tmdb_data, imdb_id, mdblist_data, ratings,
    tvdb_id, existing_mappings, existing_labels, new_ratings, existing_ratings,
    mappings_to_submit, confirm, success_count,
    next_mapping,   \* position of the loop over mappings_to_submit
    todo,           \* labels of new_ratings the rating loop has not reached
    log,            \* the prompts answered and the registry writes of the run
    \* _make_request
    request,        \* method, url and the timeout of its kwargs
    attempt,        \* the loop variable
    events,         \* the HTTP attempts made and the waits, in order
    response        \* the response returned, if any

parseVars == <<data, result>>

itemVars == <<media_type, results, tmdb_id, tmdb_data, imdb_id, mdblist_data, ratings,
              tvdb_id, existing_mappings, existing_labels, new_ratings,
              existing_ratings, mappings_to_submit, confirm, success_count,
              next_mapping, todo, log>>

reqVars == <<request, attempt, events, response>>

vars == <<pc, data, result, itemVars, reqVars>>

\* Bound of the model: how many fields and list entries a payload carries.
MaxSize == 2

(***************************************************************************)
(* JSON values.  A string is a sequence of tokens: a numeric literal, the  *)
(* characters % and /, or a run of letters.                                *)
(***************************************************************************)
NumTok(n) == [t |-> "num", n |-> n, w |-> ""]
PctTok    == [t |-> "%", n |-> 0, w |-> ""]
SlashTok  == [t |-> "/", n |-> 0, w |-> ""]
WordTok(w) == [t |-> "word", n |-> 0, w |-> w]

JAbsent == [j |-> "absent", n |-> 0, s |-> <<>>]   \* the key is not there
JNull   == [j |-> "null", n |-> 0, s |-> <<>>]     \* JSON null (None)
JObj    == [j |-> "obj", n |-> 0, s |-> <<>>]      \* a non-empty list or record
JNum(n) == [j |-> "num", n |-> n, s |-> <<>>]      \* a JSON number
JStr(s) == [j |-> "str", n |-> 0, s |-> s]         \* a JSON string

NA == JStr(<<WordTok("N/A")>>)

\* The numbers of the model: -1, 0, 0.002, 5.3, 81.25, 250.
Nums == {-1000, 0, 2, 5300, 81250, 250000}
\* The numbers list entries carry.
EntryNums == {0, 2, 5300, 81250}

\* "8.1", "85%", "53/100", "abc"
StrPlain == JStr(<<NumTok(8100)>>)
StrPct   == JStr(<<NumTok(85000), PctTok>>)
StrFrac  == JStr(<<NumTok(53000), SlashTok, NumTok(100000)>>)
StrBad   == JStr(<<WordTok("abc")>>)

TopVals == {JNull, JObj, NA, StrBad, StrPct, StrPlain} \cup {JNum(n) : n \in Nums}
EntryVals == {JNull, StrPct, StrFrac, StrBad} \cup {JNum(n) : n \in EntryNums}

(***************************************************************************)
(* Source names, str.lower() and the substring test on them.               *)
(***************************************************************************)
SourceNames == {"Internet Movie Database", "Rotten Tomatoes",
                "Rotten Tomatoes Audience", "Metacritic", "Metacritic User",
                "Letterboxd", "Trakt"}

Lower(s) ==
    CASE s = "Internet Movie Database" -> "internet movie database"
      [] s = "Rotten Tomatoes" -> "rotten tomatoes"
      [] s = "Rotten Tomatoes Audience" -> "rotten tomatoes audience"
      [] s = "Metacritic" -> "metacritic"
      [] s = "Metacritic User" -> "metacritic user"
      [] s = "Letterboxd" -> "letterboxd"
      [] s = "Trakt" -> "trakt"
      [] OTHER -> s

\* needle in hay, for the lower-cased names above
Contains(hay, needle) ==
    \/ hay = needle
    \/ <<hay, needle>> \in {
         <<"rotten tomatoes", "tomatoes">>,
         <<"rotten tomatoes audience", "tomatoes">>,
         <<"rotten tomatoes audience", "audience">>,
         <<"rotten tomatoes audience", "rotten tomatoes">>,
         <<"metacritic user", "user">>,
         <<"metacritic user", "metacritic">> }

(***************************************************************************)
(* Payloads.                                                               *)
(***************************************************************************)
SrcAbsent == [j |-> "absent", s |-> ""]    \* the entry has no 'source' key
SrcNull   == [j |-> "null", s |-> ""]      \* 'source': null
SrcStr(s) == [j |-> "str", s |-> s]

\* One element of the ratings list: a record with source and value, or anything else.
RecEntry(src, val) == [e |-> "rec", source |-> src, value |-> val]
OtherEntry == [e |-> "other", source |-> SrcAbsent, value |-> JAbsent]

Entries ==
    {RecEntry(SrcStr(s), v) : s \in SourceNames, v \in EntryVals}
    \cup {RecEntry(SrcAbsent, JNum(5300)), RecEntry(SrcNull, JNum(5300)), OtherEntry}

\* The 'ratings' field: missing, null, a list, a number, or a non-empty string.
RAbsent  == [j |-> "absent", items |-> <<>>]
RNull    == [j |-> "null", items |-> <<>>]
RScalar  == [j |-> "scalar", items |-> <<>>]
RText    == [j |-> "text", items |-> <<>>]
RList(l) == [j |-> "list", items |-> l]

Payload(nil, mc, im, sc, rt) ==
    [nil |-> nil, Metascore |-> mc, imdbRating |-> im, score |-> sc, ratings |-> rt]

\* None
NoData == Payload(TRUE, JAbsent, JAbsent, JAbsent, RAbsent)

Present(v) == IF v.j = "absent" THEN 0 ELSE 1

PayloadSize(d) ==
    Present(d.Metascore) + Present(d.imdbRating) + Present(d.score)
      + (IF d.ratings.j = "list" THEN Len(d.ratings.items) ELSE Present(d.ratings))

SeqsUpTo(S, n) == UNION {[1..k -> S] : k \in 0..n}

TopChoices(n) == IF n = 0 THEN {JAbsent} ELSE {JAbsent} \cup TopVals

\* The 'ratings' fields of at most n entries.
RatingsChoices(n) ==
    IF n = 0 THEN {RAbsent, RList(<<>>)}
    ELSE {RAbsent, RNull, RScalar, RText} \cup {RList(l) : l \in SeqsUpTo(Entries, n)}

\* d is a payload of at most MaxSize fields and entries.
IsPayload(d) ==
    \/ d = NoData
    \/ \E mc \in TopChoices(MaxSize) :
       \E im \in TopChoices(MaxSize - Present(mc)) :
       \E sc \in TopChoices(MaxSize - Present(mc) - Present(im)) :
       \E rt \in RatingsChoices(MaxSize - Present(mc) - Present(im) - Present(sc)) :
          d = Payload(FALSE, mc, im, sc, rt)

(***************************************************************************)
(* Python's float(), str() and round(x, 1).                                *)
(***************************************************************************)
Parsed(n) == [exc |-> "", n |-> n]
Fails(e)  == [exc |-> e, n |-> 0]

\* float(s) of a string: a lone numeric literal parses, anything else is a ValueError
FloatOfStr(s) ==
    IF Len(s) = 1 /\ s[1].t = "num" THEN Parsed(s[1].n) ELSE Fails("ValueError")

\* float(v)
FloatOf(v) ==
    CASE v.j = "num" -> Parsed(v.n)
      [] v.j = "str" -> FloatOfStr(v.s)
      [] OTHER -> Fails("TypeError")

\* str(v)
StrOf(v) ==
    CASE v.j = "num" -> <<NumTok(v.n)>>
      [] v.j = "str" -> v.s
      [] v.j = "null" -> <<WordTok("None")>>
      [] OTHER -> <<WordTok("[1]")>>

\* s.replace('%', '')
RemovePct(s) == SelectSeq(s, LAMBDA c : c.t # "%")

HasSlash(s) == \E i \in 1..Len(s) : s[i].t = "/"

\* s.split('/')[0]
BeforeSlash(s) ==
    LET first == CHOOSE i \in 1..Len(s) :
                     s[i].t = "/" /\ \A k \in 1..(i - 1) : s[k].t # "/"
    IN SubSeq(s, 1, first - 1)

\* round(x, 1): to the nearest tenth, a tie to the even tenth
Round1(x) ==
    LET q == x \div 100
        r == x % 100
    IN CASE r < 50 -> q * 100
         [] r > 50 -> (q + 1) * 100
         [] OTHER -> IF q % 2 = 0 THEN q * 100 ELSE (q + 1) * 100

(***************************************************************************)
(* The ratings mapping: a function from the stored keys to their scores.   *)
(***************************************************************************)
NoRatings == [k \in {} |-> 0]

Put(r, k, v) == [x \in (DOMAIN r) \cup {k} |-> IF x = k THEN v ELSE r[x]]

\* State of a running parse: the exception that ended it ("" for none) and ratings.
Running(r) == [exc |-> "", ratings |-> r]
Raised(e)  == [exc |-> e, ratings |-> NoRatings]

(***************************************************************************)
(* parse_mdblist_ratings, stage by stage.  Each stage takes and returns    *)
(* the state of the parse; an exception no handler catches ends the call.  *)
(***************************************************************************)

\* Metacritic (Metascore) - top level
TopMetascore(d, st) ==
    IF d.Metascore.j # "absent" /\ d.Metascore # NA
    THEN LET mc == FloatOf(d.Metascore)
         IN CASE mc.exc = "ValueError" -> st
              [] mc.exc # "" -> Raised(mc.exc)
              [] mc.n > 0 -> Running(Put(st.ratings, "MC", mc.n))
              [] OTHER -> st
    ELSE st

\* IMDb rating - top level
TopImdb(d, st) ==
    IF d.imdbRating.j # "absent" /\ d.imdbRating # NA
    THEN LET im == FloatOf(d.imdbRating)
         IN CASE im.exc = "ValueError" -> st
              [] im.exc # "" -> Raised(im.exc)
              [] im.n > 0 ->
                   Running(Put(st.ratings, "IM",
                               IF im.n <= 10000 THEN Round1(im.n * 10) ELSE im.n))
              [] OTHER -> st
    ELSE st

\* "Robust value parsing": the score of a list entry's value
EntryScore(val) ==
    LET clean_val == RemovePct(StrOf(val))
    IN IF HasSlash(clean_val) THEN FloatOfStr(BeforeSlash(clean_val))
       ELSE FloatOfStr(clean_val)

\* IMDb (IM): skipped when the top level (or an earlier entry) already gave it
StoreIM(score, rs) ==
    IF "IM" \notin DOMAIN rs
    THEN LET final == IF score <= 10000 THEN score * 10 ELSE score
         IN IF final > 0 THEN Put(rs, "IM", Round1(final)) ELSE rs
    ELSE rs

\* Rotten Tomatoes critics (RT)
StoreRT(source, score, rs) ==
    IF ~Contains(source, "audience") /\ score > 0
    THEN Put(rs, "RT", score) ELSE rs

\* Rotten Tomatoes audience / Popcornmeter (PC)
StorePC(score, rs) ==
    IF score > 0 THEN Put(rs, "PC", score) ELSE rs

\* StoreMC without the strict filter
MutStoreMCAnyScore(source, score, rs) ==
    IF ~Contains(source, "user") /\ "MC" \notin DOMAIN rs /\ score > 0
    THEN Put(rs, "MC", score) ELSE rs

\* StoreMC without the test that MC is still unset
MutStoreMCOverwrite(source, score, rs) ==
    IF ~Contains(source, "user") /\ score > 10000
    THEN Put(rs, "MC", score) ELSE rs

\* Metacritic (MC): the strict filter keeps critic scores (> 10) only
StoreMC(source, score, rs) ==
    IF ~Contains(source, "user") /\ "MC" \notin DOMAIN rs /\ score > 10000
    THEN Put(rs, "MC", score) ELSE rs

\* Letterboxd (LB): /5 to /100
StoreLB(score, rs) ==
    LET final == IF score <= 5000 THEN score * 20
                 ELSE IF score <= 10000 THEN score * 10 ELSE score
    IN IF final > 0 THEN Put(rs, "LB", Round1(final)) ELSE rs

\* Trakt (TR)
StoreTR(score, rs) ==
    LET final == IF score <= 10000 THEN score * 10 ELSE score
    IN IF final > 0 THEN Put(rs, "TR", Round1(final)) ELSE rs

\* The if/elif chain of the loop body, for a parsed score
StoreEntry(source, score, rs) ==
    CASE Contains(source, "internet movie database") -> StoreIM(score, rs)
      [] source = "rotten tomatoes" -> StoreRT(source, score, rs)
      [] Contains(source, "tomatoes") /\ Contains(source, "audience") ->
           StorePC(score, rs)
      [] source = "metacritic" -> StoreMC(source, score, rs)
      [] Contains(source, "letterboxd") -> StoreLB(score, rs)
      [] Contains(source, "trakt") -> StoreTR(score, rs)
      [] OTHER -> rs

\* One iteration of "for r in raw_ratings"
ListEntry(r, st) ==
    CASE r.e # "rec" -> Raised("AttributeError")            \* r.get
      [] r.source.j = "null" -> Raised("AttributeError")    \* None.lower()
      [] r.value.j \in {"absent", "null"} -> st             \* val is None: continue
      [] OTHER ->
           LET source == IF r.source.j = "absent" THEN "" ELSE Lower(r.source.s)
               score == EntryScore(r.value)
           IN IF score.exc # "" THEN st                      \* except ValueError: continue
              ELSE Running(StoreEntry(source, score.n, st.ratings))

RECURSIVE ListPass(_, _, _)
\* The loop over raw_ratings from entry i on
ListPass(items, i, st) ==
    IF i > Len(items) \/ st.exc # "" THEN st
    ELSE ListPass(items, i + 1, ListEntry(items[i], st))

\* raw_ratings = data.get('ratings', []) and the loop over it
RatingsList(d, st) ==
    CASE d.ratings.j = "absent" -> st
      [] d.ratings.j \in {"null", "scalar"} -> Raised("TypeError")   \* not iterable
      [] d.ratings.j = "text" -> Raised("AttributeError")   \* its elements have no get
      [] OTHER -> ListPass(d.ratings.items, 1, st)

\* bool(v)
Truthy(v) ==
    CASE v.j \in {"absent", "null"} -> FALSE
      [] v.j = "num" -> v.n # 0
      [] v.j = "str" -> Len(v.s) > 0
      [] OTHER -> TRUE

\* TopScore without the test that TR is still unset
MutTopScoreOverwrite(d, st) ==
    IF d.score.j # "absent" /\ Truthy(d.score)
    THEN LET tr_score == FloatOf(d.score)
         IN CASE tr_score.exc = "ValueError" -> st
              [] tr_score.exc # "" -> Raised(tr_score.exc)
              [] tr_score.n > 0 -> Running(Put(st.ratings, "TR", Round1(tr_score.n)))
              [] OTHER -> st
    ELSE st

\* Fallback: top level score for Trakt if not in list
TopScore(d, st) ==
    IF d.score.j # "absent" /\ Truthy(d.score) /\ "TR" \notin DOMAIN st.ratings
    THEN LET tr_score == FloatOf(d.score)
         IN CASE tr_score.exc = "ValueError" -> st
              [] tr_score.exc # "" -> Raised(tr_score.exc)
              [] tr_score.n > 0 -> Running(Put(st.ratings, "TR", Round1(tr_score.n)))
              [] OTHER -> st
    ELSE st

\* "if not data": None or a record without keys
Falsy(d) ==
    \/ d.nil
    \/ /\ d.Metascore.j = "absent" /\ d.imdbRating.j = "absent"
       /\ d.score.j = "absent" /\ d.ratings.j = "absent"

parse_mdblist_ratings(d) ==
    IF Falsy(d) THEN Running(NoRatings)
    ELSE LET s1 == TopMetascore(d, Running(NoRatings))
             s2 == IF s1.exc # "" THEN s1 ELSE TopImdb(d, s1)
             s3 == IF s2.exc # "" THEN s2 ELSE RatingsList(d, s2)
         IN IF s3.exc # "" THEN s3 ELSE TopScore(d, s3)

(***************************************************************************)
(* Identifiers: None, an integer or a string (v is its decimal or text).   *)
(***************************************************************************)
IdNone   == [t |-> "none", v |-> ""]
IdInt(v) == [t |-> "int", v |-> v]
IdStr(v) == [t |-> "str", v |-> v]

\* str(id)
IdToStr(id) == IF id.t = "none" THEN IdStr("None") ELSE IdStr(id.v)

\* bool(id)
IdTruthy(id) ==
    CASE id.t = "none" -> FALSE
      [] id.t = "int" -> id.v # "0"
      [] OTHER -> id.v # ""

NoMappings == [k \in {} |-> <<>>]

NoTimeout == [given |-> FALSE, seconds |-> 0]
NoResponse == [nil |-> TRUE, status |-> ""]

\* No request is being made
ReqIdle ==
    /\ request = [method |-> "", url |-> "", timeout |-> NoTimeout]
    /\ attempt = 0
    /\ events = <<>>
    /\ response = NoResponse

\* The locals of process_item before the call
ItemIdle ==
    /\ media_type = ""
    /\ results = <<>>
    /\ tmdb_id = IdNone
    /\ tmdb_data = [external_ids |-> [nil |-> TRUE, imdb_id |-> IdNone],
                    details |-> [nil |-> TRUE, vote_average |-> JAbsent]]
    /\ imdb_id = IdNone
    /\ mdblist_data = [nil |-> TRUE, payload |-> NoData, tvdbid |-> IdNone]
    /\ ratings = NoRatings
    /\ tvdb_id = IdNone
    /\ existing_mappings = NoMappings
    /\ existing_labels = {}
    /\ new_ratings = NoRatings
    /\ existing_ratings = NoRatings
    /\ mappings_to_submit = <<>>
    /\ confirm = ""
    /\ success_count = 0
    /\ next_mapping = 1
    /\ todo = {}
    /\ log = <<>>

(***************************************************************************)
(* Specification of one call of parse_mdblist_ratings on any payload.      *)
(***************************************************************************)
InitParse ==
    /\ pc = "call"
    /\ IsPayload(data)
    /\ result = Running(NoRatings)
    /\ ItemIdle
    /\ ReqIdle

\* The call returns its mapping
ParseReturns ==
    /\ pc = "call"
    /\ parse_mdblist_ratings(data).exc = ""
    /\ result' = parse_mdblist_ratings(data)
    /\ pc' = "returned"
    /\ UNCHANGED <<data, itemVars, reqVars>>

\* The call ends with an exception
ParseRaises ==
    /\ pc = "call"
    /\ parse_mdblist_ratings(data).exc # ""
    /\ result' = parse_mdblist_ratings(data)
    /\ pc' = "raised"
    /\ UNCHANGED <<data, itemVars, reqVars>>

NextParse == ParseReturns \/ ParseRaises

SpecParse == InitParse /\ [][NextParse]_vars

(***************************************************************************)
(* Claims about parse_mdblist_ratings, checked under SpecParse.            *)
(***************************************************************************)
Codes == {"IM", "RT", "PC", "MC", "LB", "TR"}

Returned == pc = "returned"

items == IF data.ratings.j = "list" THEN data.ratings.items ELSE <<>>

\* A top-level field that is present, not 'N/A' and a number > 0
TopValid(v) ==
    v.j # "absent" /\ v # NA /\ FloatOf(v).exc = "" /\ FloatOf(v).n > 0

\* Entry i is a record whose lower-cased source is name and whose value parses
EntryFrom(i, name) ==
    /\ items[i].e = "rec" /\ items[i].source.j = "str"
    /\ Lower(items[i].source.s) = name
    /\ items[i].value.j \notin {"absent", "null"}
    /\ EntryScore(items[i].value).exc = ""

\* C1: parse_mdblist_ratings never raises: every call, whatever the payload,
\* ends by returning a mapping.
C1_NeverRaises == pc # "raised"

\* What one input alone would store: the mapping it writes into an empty one.
Alone(st) == IF st.exc = "" THEN st.ratings ELSE NoRatings

\* The candidates in the order top-level Metascore, top-level imdbRating, the
\* list entries in payload order, top-level score.
Candidates ==
    <<Alone(TopMetascore(data, Running(NoRatings))),
      Alone(TopImdb(data, Running(NoRatings)))>>
    \o [i \in 1..Len(items) |-> Alone(ListEntry(items[i], Running(NoRatings)))]
    \o <<Alone(TopScore(data, Running(NoRatings)))>>

CandidatesFor(c) == {i \in 1..Len(Candidates) : c \in DOMAIN Candidates[i]}

Earliest(S) == CHOOSE i \in S : \A k \in S : i <= k

\* C2: for every source code the first successful write wins: the returned
\* value of a code is the value of its earliest valid candidate, and a code
\* without a valid candidate is not in the mapping.
C2_FirstWriteWins ==
    Returned =>
        \A c \in Codes :
            IF CandidatesFor(c) = {} THEN c \notin DOMAIN result.ratings
            ELSE /\ c \in DOMAIN result.ratings
                 /\ result.ratings[c] = Candidates[Earliest(CandidatesFor(c))][c]

\* C3: the returned mapping holds no score <= 0.
C3_NoScoreAtMostZero ==
    Returned => \A c \in DOMAIN result.ratings : result.ratings[c] > 0

\* Every present field and every list entry of the payload parses as a number
AllNumeric ==
    /\ \A v \in {data.Metascore, data.imdbRating, data.score} :
          v.j # "absent" => FloatOf(v).exc = ""
    /\ data.ratings.j \in {"absent", "list"}
    /\ \A i \in 1..Len(items) :
          /\ items[i].e = "rec" /\ items[i].source.j = "str"
          /\ items[i].value.j \notin {"absent", "null"}
          /\ EntryScore(items[i].value).exc = ""

\* C4: for a payload whose fields and entries parse as numbers, every returned
\* score s is on the 0-100 scale: 0 < s <= 100.
C4_ScoresWithin0To100 ==
    (Returned /\ AllNumeric) =>
        \A c \in DOMAIN result.ratings :
            result.ratings[c] > 0 /\ result.ratings[c] <= 100000

\* The IMDb rescaling of the top level: <= 10 is a 0-10 scale
RescaledImdb(n) == IF n <= 10000 THEN Round1(n * 10) ELSE n

\* C8: top-level fields win over same-named list entries: a valid top-level
\* Metascore is the returned MC, and a valid top-level imdbRating decides the
\* returned IM, whatever the ratings list holds.
C8_TopLevelWins ==
    Returned =>
        /\ TopValid(data.Metascore) =>
              /\ "MC" \in DOMAIN result.ratings
              /\ result.ratings["MC"] = FloatOf(data.Metascore).n
        /\ TopValid(data.imdbRating) =>
              /\ "IM" \in DOMAIN result.ratings
              /\ result.ratings["IM"] = RescaledImdb(FloatOf(data.imdbRating).n)

\* C8's case: a valid top-level Metascore and a list entry of Metacritic that
\* would pass the filter with another value.
C8_Witness ==
    /\ Returned
    /\ TopValid(data.Metascore)
    /\ \E i \in 1..Len(items) :
          /\ EntryFrom(i, "metacritic")
          /\ EntryScore(items[i].value).n > 10000
          /\ EntryScore(items[i].value).n # FloatOf(data.Metascore).n

\* The list entries of Metacritic whose value is above 10
CriticEntries ==
    {i \in 1..Len(items) :
        EntryFrom(i, "metacritic") /\ EntryScore(items[i].value).n > 10000}

\* C9: without a valid top-level Metascore, MC comes from the first list entry
\* of source 'metacritic' (any case) whose value is > 10; entries with a
\* value <= 10 never create MC.
C9_MetacriticFilter ==
    (Returned /\ ~TopValid(data.Metascore)) =>
        IF CriticEntries = {} THEN "MC" \notin DOMAIN result.ratings
        ELSE /\ "MC" \in DOMAIN result.ratings
             /\ result.ratings["MC"] =
                    EntryScore(items[Earliest(CriticEntries)].value).n

\* C9's case: a Metacritic entry with a value in (0, 10] is passed over.
C9_Witness ==
    /\ Returned
    /\ ~TopValid(data.Metascore)
    /\ \E i \in 1..Len(items) :
          /\ EntryFrom(i, "metacritic")
          /\ EntryScore(items[i].value).n > 0
          /\ EntryScore(items[i].value).n <= 10000
    /\ "MC" \notin DOMAIN result.ratings

\* The payload carries an IMDb value only as top-level imdbRating
OnlyTopImdb ==
    /\ TopValid(data.imdbRating)
    /\ \A i \in 1..Len(items) : ~EntryFrom(i, "internet movie database")

\* The payload carries an IMDb value only as one list entry, with a value > 0
OnlyListImdb(i) ==
    /\ ~TopValid(data.imdbRating)
    /\ i \in 1..Len(items)
    /\ EntryFrom(i, "internet movie database")
    /\ EntryScore(items[i].value).n > 0
    /\ \A k \in 1..Len(items) :
          k # i => ~EntryFrom(k, "internet movie database")

\* C10: an IMDb value v > 0 is rescaled the same way on both paths: v * 10
\* rounded to 1 decimal when v <= 10, v unchanged when v > 10.
C10_SameRescaleOnBothPaths ==
    Returned =>
        /\ OnlyTopImdb =>
              /\ "IM" \in DOMAIN result.ratings
              /\ result.ratings["IM"] = RescaledImdb(FloatOf(data.imdbRating).n)
        /\ \A i \in 1..Len(items) :
              OnlyListImdb(i) =>
                 /\ "IM" \in DOMAIN result.ratings
                 /\ result.ratings["IM"] = RescaledImdb(EntryScore(items[i].value).n)

\* The list entries of Trakt that store TR: the value parses and is > 0
TraktEntries ==
    {i \in 1..Len(items) : EntryFrom(i, "trakt") /\ EntryScore(items[i].value).n > 0}

Latest(S) == CHOOSE i \in S : \A k \in S : k <= i

\* The Trakt rescaling of the list pass: <= 10 is a 0-10 scale
RescaledTrakt(n) == Round1(IF n <= 10000 THEN n * 10 ELSE n)

\* C11: the top-level score is only a fallback for Trakt, applied last: when a
\* list entry stored TR the returned TR is the list's value (that of the last
\* entry that stored it) and the score is ignored; when none did and the score
\* is present and a number > 0, TR is the score rounded to 1 decimal, not
\* rescaled; otherwise the mapping has no TR.
C11_ScoreIsLastFallback ==
    Returned =>
        IF TraktEntries # {}
        THEN /\ "TR" \in DOMAIN result.ratings
             /\ result.ratings["TR"] =
                    RescaledTrakt(EntryScore(items[Latest(TraktEntries)].value).n)
        ELSE IF TopValid(data.score)
             THEN /\ "TR" \in DOMAIN result.ratings
                  /\ result.ratings["TR"] = Round1(FloatOf(data.score).n)
             ELSE "TR" \notin DOMAIN result.ratings

\* C11's case: a list entry stored TR and a valid top-level score would give
\* another value.
C11_Witness ==
    /\ Returned
    /\ TraktEntries # {}
    /\ TopValid(data.score)
    /\ Round1(FloatOf(data.score).n) # result.ratings["TR"]

(***************************************************************************)
(* process_item: what the collaborators may answer.                        *)
(***************************************************************************)
\* Titles typed at the prompt, and title.strip()
Titles == {"", " ", "Dune"}
Strip(s) == IF s = " " THEN "" ELSE s

\* search_tmdb: the TMDB ids of the results ([] also when the request fails)
SearchResults == {<<>>, <<IdInt("11"), IdInt("22")>>}

\* What is typed at the selection prompt: a number or not
Selections == {[int |-> FALSE, n |-> 0]} \cup {[int |-> TRUE, n |-> n] : n \in 0..3}

\* get_tmdb_details: external ids and details, each None when its request fails
TmdbDetails ==
    {[external_ids |-> e, details |-> d] :
        e \in {[nil |-> TRUE, imdb_id |-> IdNone],
               [nil |-> FALSE, imdb_id |-> IdNone],
               [nil |-> FALSE, imdb_id |-> IdStr("tt1")]},
        d \in {[nil |-> TRUE, vote_average |-> JAbsent],
               [nil |-> FALSE, vote_average |-> JNum(0)],
               [nil |-> FALSE, vote_average |-> JNum(7500)]}}

\* The payloads MDblist answers with: {}, ratings of several sources, a null field
ItemPayloads ==
    {Payload(FALSE, JAbsent, JAbsent, JAbsent, RAbsent),
     Payload(FALSE, JAbsent, StrPlain, JAbsent,
             RList(<<RecEntry(SrcStr("Rotten Tomatoes"), StrPct)>>)),
     Payload(FALSE, JNum(81250), JAbsent, JAbsent,
             RList(<<RecEntry(SrcStr("Letterboxd"), JNum(5300))>>)),
     Payload(FALSE, JNull, JAbsent, JAbsent, RAbsent)}

\* get_mdblist_data: None when the request fails, else the payload and its 'tvdbid'
MdblistResponses ==
    {[nil |-> TRUE, payload |-> NoData, tvdbid |-> IdNone]} \cup
    {[nil |-> FALSE, payload |-> p, tvdbid |-> id] :
        p \in ItemPayloads, id \in {IdNone, IdInt("0"), IdInt("100"), IdStr("100")}}

\* One record of a registry list: with or without the key read from it
WithValue(id) == [has |-> TRUE, value |-> id]
NoValue == [has |-> FALSE, value |-> IdNone]

MappingDicts ==
    {NoMappings,
     [k \in {"imdb"} |-> <<WithValue(IdStr("tt1"))>>],
     [k \in {"imdb"} |-> <<WithValue(IdStr("tt2"))>>],
     [k \in {"tvdb"} |-> <<WithValue(IdStr("100"))>>],
     [k \in {"imdb", "tvdb"} |->
         IF k = "imdb" THEN <<NoValue, WithValue(IdStr("tt1"))>> ELSE <<>>],
     [k \in {"imdb", "tvdb"} |->
         IF k = "imdb" THEN <<WithValue(IdStr("tt1"))>>
         ELSE <<WithValue(IdStr("200")), WithValue(IdStr("100"))>>],
     [k \in {"imdb", "tvdb"} |->
         IF k = "imdb" THEN <<>> ELSE <<WithValue(IdInt("100"))>>]}

\* The registry's answer about mappings: a failed request, or a decoded body
MappingResponses ==
    {[error |-> TRUE, has_mappings |-> FALSE, mappings |-> NoMappings],
     [error |-> FALSE, has_mappings |-> FALSE, mappings |-> NoMappings]} \cup
    {[error |-> FALSE, has_mappings |-> TRUE, mappings |-> m] : m \in MappingDicts}

WithLabel(l) == [has |-> TRUE, label |-> l]
NoLabel == [has |-> FALSE, label |-> ""]

\* The registry's answer about ratings: a failed request, or the list of records
RatingResponses ==
    {[error |-> TRUE, items |-> <<>>]} \cup
    {[error |-> FALSE, items |-> l] :
        l \in {<<>>,
               <<WithLabel("im")>>,
               <<WithLabel("TM"), NoLabel>>,
               <<WithLabel("Rt"), WithLabel("tm")>>,
               <<WithLabel("MC"), WithLabel("lb"), WithLabel("im")>>,
               <<WithLabel("IM"), WithLabel("RT"), WithLabel("MC"),
                 WithLabel("LB"), WithLabel("TM")>>}}

\* What is typed at a confirmation prompt, and answer.lower().strip()
Answers == {"Y", "yes", "", "n"}
LowerStrip(s) == IF s = "Y" THEN "y" ELSE s

\* str.upper() on rating labels
Upper(l) ==
    CASE l = "im" -> "IM"
      [] l = "tm" -> "TM"
      [] l = "Rt" -> "RT"
      [] l = "lb" -> "LB"
      [] OTHER -> l

(***************************************************************************)
(* process_item: the pure steps.                                           *)
(***************************************************************************)
\* parse_tmdb_rating(details): None is modelled as 0, which "if tmdb_rating" drops too
parse_tmdb_rating(details) ==
    IF details.nil THEN 0
    ELSE LET vote_avg == details.vote_average
         IN IF Truthy(vote_avg) /\ vote_avg.n > 0 THEN Round1(vote_avg.n * 10) ELSE 0

\* get_existing_mappings: per id type, the values of the records that have one
get_existing_mappings(resp) ==
    IF resp.error \/ ~resp.has_mappings THEN NoMappings
    ELSE [id_type \in DOMAIN resp.mappings |->
            LET with == SelectSeq(resp.mappings[id_type], LAMBDA m : m.has)
            IN [i \in 1..Len(with) |-> with[i].value]]

\* get_existing_ratings: the upper-cased labels of the records that have one
get_existing_ratings(resp) ==
    IF resp.error THEN {}
    ELSE {Upper(resp.items[i].label) :
             i \in {k \in 1..Len(resp.items) : resp.items[k].has}}

\* x in l
InList(x, l) == \E i \in 1..Len(l) : l[i] = x

imdb_exists(em, imdb) == "imdb" \in DOMAIN em /\ InList(imdb, em["imdb"])

\* tvdb_exists comparing the id as it came, without str()
MutTvdbExistsNoStr(em, tvdb) ==
    IdTruthy(tvdb) /\ "tvdb" \in DOMAIN em /\ InList(tvdb, em["tvdb"])

tvdb_exists(em, tvdb) ==
    IdTruthy(tvdb) /\ "tvdb" \in DOMAIN em /\ InList(IdToStr(tvdb), em["tvdb"])

Restrict(f, S) == [k \in S |-> f[k]]

\* new_ratings with the test of existing_ratings
MutNewRatingsSameTest(rs, labels) ==
    [k \in {label \in DOMAIN rs : Upper(label) \in labels} |-> rs[k]]

\* new_ratings = {label: score ... if label.upper() not in existing_labels}
NewRatings(rs, labels) ==
    Restrict(rs, {label \in DOMAIN rs : Upper(label) \notin labels})

\* existing_ratings = {label: score ... if label.upper() in existing_labels}
ExistingRatings(rs, labels) ==
    Restrict(rs, {label \in DOMAIN rs : Upper(label) \in labels})

Pair(id_type, id) == [id_type |-> id_type, value |-> id]

\* Step 9: the mappings to submit, imdb then tvdb
MappingsToSubmit(em, imdb, tvdb) ==
    (IF ~imdb_exists(em, imdb) THEN <<Pair("imdb", imdb)>> ELSE <<>>)
    \o (IF IdTruthy(tvdb) /\ ~tvdb_exists(em, tvdb)
        THEN <<Pair("tvdb", IdToStr(tvdb))>> ELSE <<>>)

\* The TVDB id taken whatever the media type
MutExtractTvdbAnyType(mtype, md) == md.tvdbid

\* The TVDB id taken from MDblist, for TV only
ExtractTvdb(mtype, md) == IF mtype = "tv" THEN md.tvdbid ELSE IdNone

\* "if mdblist_data": a response that is not None and has a key
HasData(md) == ~md.nil /\ (~Falsy(md.payload) \/ md.tvdbid.t # "none")

\* "confirm in ['y', 'yes', '']" with a list that takes every answer
MutYesAnyAnswer(answer) == answer \in {"y", "yes", "", "n"}

\* confirm in ['y', 'yes', '']
Yes(answer) == answer \in {"y", "yes", ""}

\* Where process_item goes once the mappings are handled (step 10)
AfterMappings(new) == IF new = NoRatings THEN "done" ELSE "confirm_ratings"

(***************************************************************************)
(* process_item: one action per prompt and per request.                    *)
(***************************************************************************)
InitItem ==
    /\ pc = "start"
    /\ data = NoData
    /\ result = Running(NoRatings)
    /\ ItemIdle
    /\ ReqIdle

\* Steps 1-2: the media type and the title are typed
AskTitle ==
    /\ pc = "start"
    /\ \E media_type_choice \in {"1", "2"}, title \in Titles :
          /\ media_type' = IF media_type_choice = "2" THEN "tv" ELSE "movie"
          /\ pc' = IF Strip(title) = "" THEN "done" ELSE "search"
    /\ UNCHANGED <<parseVars, results, tmdb_id, tmdb_data, imdb_id, mdblist_data,
                   ratings, tvdb_id, existing_mappings, existing_labels, new_ratings,
                   existing_ratings, mappings_to_submit, confirm, success_count,
                   next_mapping, todo, log>>
    /\ UNCHANGED reqVars

\* Step 2: search_tmdb answers
SearchTmdb ==
    /\ pc = "search"
    /\ \E found \in SearchResults :
          /\ results' = found
          /\ pc' = IF found = <<>> THEN "done" ELSE "select"
    /\ UNCHANGED <<parseVars, media_type, tmdb_id, tmdb_data, imdb_id, mdblist_data,
                   ratings, tvdb_id, existing_mappings, existing_labels, new_ratings,
                   existing_ratings, mappings_to_submit, confirm, success_count,
                   next_mapping, todo, log>>
    /\ UNCHANGED reqVars

\* Step 3: a selection is typed
SelectItem ==
    /\ pc = "select"
    /\ \E choice \in Selections :
          IF choice.int /\ 1 <= choice.n /\ choice.n <= Len(results)
          THEN /\ tmdb_id' = results[choice.n]
               /\ pc' = "details"
          ELSE /\ pc' = "done"     \* not a number, 0 to cancel, or out of range
               /\ UNCHANGED tmdb_id
    /\ UNCHANGED <<parseVars, media_type, results, tmdb_data, imdb_id, mdblist_data,
                   ratings, tvdb_id, existing_mappings, existing_labels, new_ratings,
                   existing_ratings, mappings_to_submit, confirm, success_count,
                   next_mapping, todo, log>>
    /\ UNCHANGED reqVars

\* Step 4: get_tmdb_details answers; without an IMDb id the run ends
FetchDetails ==
    /\ pc = "details"
    /\ \E td \in TmdbDetails :
          /\ tmdb_data' = td
          /\ imdb_id' = IF td.external_ids.nil THEN IdNone ELSE td.external_ids.imdb_id
          /\ pc' = IF IdTruthy(imdb_id') THEN "mdblist" ELSE "done"
    /\ UNCHANGED <<parseVars, media_type, results, tmdb_id, mdblist_data,
                   ratings, tvdb_id, existing_mappings, existing_labels, new_ratings,
                   existing_ratings, mappings_to_submit, confirm, success_count,
                   next_mapping, todo, log>>
    /\ UNCHANGED reqVars

\* ratings['TM'] = tmdb_rating, when there is one
WithTM(rs, tmdb_rating) == IF tmdb_rating # 0 THEN Put(rs, "TM", tmdb_rating) ELSE rs

\* Step 5: get_mdblist_data answers, its ratings are parsed, the TMDB rating added
FetchMdblist ==
    /\ pc = "mdblist"
    /\ \E md \in MdblistResponses :
          /\ mdblist_data' = md
          /\ IF HasData(md)
             THEN /\ data' = md.payload
                  /\ result' = parse_mdblist_ratings(md.payload)
                  /\ IF result'.exc # ""
                     THEN /\ pc' = "raised"        \* the exception leaves process_item
                          /\ UNCHANGED <<ratings, tvdb_id>>
                     ELSE /\ ratings' = WithTM(result'.ratings,
                                               parse_tmdb_rating(tmdb_data.details))
                          /\ tvdb_id' = ExtractTvdb(media_type, md)
                          /\ pc' = "mappings"
             ELSE /\ ratings' = WithTM(NoRatings, parse_tmdb_rating(tmdb_data.details))
                  /\ pc' = "mappings"
                  /\ UNCHANGED <<parseVars, tvdb_id>>
    /\ UNCHANGED <<media_type, results, tmdb_id, tmdb_data, imdb_id,
                   existing_mappings, existing_labels, new_ratings,
                   existing_ratings, mappings_to_submit, confirm, success_count,
                   next_mapping, todo, log>>
    /\ UNCHANGED reqVars

\* Step 6: get_existing_mappings answers
CheckMappings ==
    /\ pc = "mappings"
    /\ \E resp \in MappingResponses :
          existing_mappings' = get_existing_mappings(resp)
    /\ pc' = "ratings"
    /\ UNCHANGED <<parseVars, media_type, results, tmdb_id, tmdb_data, imdb_id,
                   mdblist_data, ratings, tvdb_id, existing_labels, new_ratings,
                   existing_ratings, mappings_to_submit, confirm, success_count,
                   next_mapping, todo, log>>
    /\ UNCHANGED reqVars

\* Steps 7-9: get_existing_ratings answers, the ratings are split, the missing
\* mappings listed
CheckRatings ==
    /\ pc = "ratings"
    /\ \E resp \in RatingResponses :
          existing_labels' = get_existing_ratings(resp)
    /\ new_ratings' = NewRatings(ratings, existing_labels')
    /\ existing_ratings' = ExistingRatings(ratings, existing_labels')
    /\ mappings_to_submit' = MappingsToSubmit(existing_mappings, imdb_id, tvdb_id)
    /\ pc' = IF mappings_to_submit' # <<>> THEN "confirm_mappings"
             ELSE AfterMappings(new_ratings')
    /\ UNCHANGED <<parseVars, media_type, results, tmdb_id, tmdb_data, imdb_id,
                   mdblist_data, ratings, tvdb_id, existing_mappings, confirm,
                   success_count, next_mapping, todo, log>>
    /\ UNCHANGED reqVars

Event(kind, key, id, score) == [kind |-> kind, key |-> key, id |-> id, score |-> score]

\* Step 9: the mapping prompt is answered
ConfirmMappings ==
    /\ pc = "confirm_mappings"
    /\ \E answer \in Answers :
          /\ confirm' = LowerStrip(answer)
          /\ log' = Append(log, Event("confirm_mappings", confirm', IdNone, 0))
          /\ pc' = IF Yes(confirm') THEN "submit_mappings" ELSE AfterMappings(new_ratings)
    /\ next_mapping' = 1
    /\ UNCHANGED <<parseVars, media_type, results, tmdb_id, tmdb_data, imdb_id,
                   mdblist_data, ratings, tvdb_id, existing_mappings, existing_labels,
                   new_ratings, existing_ratings, mappings_to_submit, success_count,
                   todo>>
    /\ UNCHANGED reqVars

\* Step 9: one submit_mapping call (its outcome is not used)
SubmitMapping ==
    /\ pc = "submit_mappings"
    /\ log' = Append(log, Event("submit_mapping",
                                mappings_to_submit[next_mapping].id_type,
                                mappings_to_submit[next_mapping].value, 0))
    /\ next_mapping' = next_mapping + 1
    /\ pc' = IF next_mapping = Len(mappings_to_submit)
             THEN AfterMappings(new_ratings) ELSE "submit_mappings"
    /\ UNCHANGED <<parseVars, media_type, results, tmdb_id, tmdb_data, imdb_id,
                   mdblist_data, ratings, tvdb_id, existing_mappings, existing_labels,
                   new_ratings, existing_ratings, mappings_to_submit, confirm,
                   success_count, todo>>
    /\ UNCHANGED reqVars

\* Step 10: the ratings prompt is answered
ConfirmRatings ==
    /\ pc = "confirm_ratings"
    /\ \E answer \in Answers :
          /\ confirm' = LowerStrip(answer)
          /\ log' = Append(log, Event("confirm_ratings", confirm', IdNone, 0))
          /\ pc' = IF Yes(confirm') THEN "submit_ratings" ELSE "done"
    /\ todo' = DOMAIN new_ratings
    /\ UNCHANGED <<parseVars, media_type, results, tmdb_id, tmdb_data, imdb_id,
                   mdblist_data, ratings, tvdb_id, existing_mappings, existing_labels,
                   new_ratings, existing_ratings, mappings_to_submit, success_count,
                   next_mapping>>
    /\ UNCHANGED reqVars

\* Step 11: one submit_rating call, which succeeds or fails.  The loop follows
\* the order of the dict, which the mapping of the model does not keep: any
\* label not yet reached may be next.
SubmitRating ==
    /\ pc = "submit_ratings"
    /\ \E label \in todo, ok \in BOOLEAN :
          /\ log' = Append(log, Event("submit_rating", label, IdNone, new_ratings[label]))
          /\ success_count' = IF ok THEN success_count + 1 ELSE success_count
          /\ todo' = todo \ {label}
          /\ pc' = IF todo' = {} THEN "done" ELSE "submit_ratings"
    /\ UNCHANGED <<parseVars, media_type, results, tmdb_id, tmdb_data, imdb_id,
                   mdblist_data, ratings, tvdb_id, existing_mappings, existing_labels,
                   new_ratings, existing_ratings, mappings_to_submit, confirm,
                   next_mapping>>
    /\ UNCHANGED reqVars

Next ==
    \/ AskTitle \/ SearchTmdb \/ SelectItem \/ FetchDetails \/ FetchMdblist
    \/ CheckMappings \/ CheckRatings \/ ConfirmMappings \/ SubmitMapping
    \/ ConfirmRatings \/ SubmitRating

Spec == InitItem /\ [][Next]_vars

(***************************************************************************)
(* Claims about process_item, checked under Spec.                          *)
(***************************************************************************)
\* The run is past step 9: the split and mappings_to_submit are computed.
\* (After an IMDb id was found the run only ends there or by an exception.)
AfterSplit ==
    \/ pc \in {"confirm_mappings", "submit_mappings", "confirm_ratings", "submit_ratings"}
    \/ pc = "done" /\ IdTruthy(imdb_id)

\* C5: new_ratings and existing_ratings partition the candidate ratings: the
\* key sets are disjoint, their union is the candidate's keys, every score is
\* unchanged, and a key is in existing_ratings exactly when its upper-cased
\* form is in the existing-label set.
C5_SplitIsPartition ==
    AfterSplit =>
        /\ DOMAIN new_ratings \cap DOMAIN existing_ratings = {}
        /\ DOMAIN new_ratings \cup DOMAIN existing_ratings = DOMAIN ratings
        /\ \A k \in DOMAIN new_ratings : new_ratings[k] = ratings[k]
        /\ \A k \in DOMAIN existing_ratings : existing_ratings[k] = ratings[k]
        /\ \A k \in DOMAIN ratings :
              k \in DOMAIN existing_ratings <=> Upper(k) \in existing_labels

\* C5's case: a candidate split with keys on both sides.
C5_Witness ==
    /\ AfterSplit
    /\ DOMAIN new_ratings # {}
    /\ DOMAIN existing_ratings # {}

\* The values the fetched snapshot holds under an id type
Snapshot(id_type) ==
    IF id_type \in DOMAIN existing_mappings
    THEN {existing_mappings[id_type][i] : i \in 1..Len(existing_mappings[id_type])}
    ELSE {}

\* C6: only the missing pieces are submitted: every submit_rating is for a
\* label whose upper-cased form is not in the fetched existing labels, and
\* every submit_mapping is for a pair whose value is not in the fetched
\* existing mappings of its id type.
C6_OnlyMissingSubmitted ==
    \A i \in 1..Len(log) :
        /\ log[i].kind = "submit_rating" => Upper(log[i].key) \notin existing_labels
        /\ log[i].kind = "submit_mapping" => log[i].id \notin Snapshot(log[i].key)

\* C6's case: a run that submitted a mapping and a rating while the registry
\* already held another mapping and another rating of the title.
C6_Witness ==
    /\ \E i \in 1..Len(log) : log[i].kind = "submit_mapping"
    /\ \E i \in 1..Len(log) : log[i].kind = "submit_rating"
    /\ DOMAIN existing_ratings # {}
    /\ Snapshot("imdb") \cup Snapshot("tvdb") # {}

\* The TVDB id MDblist gave, whatever the media type
FoundTvdb == IF HasData(mdblist_data) THEN mdblist_data.tvdbid ELSE IdNone

\* C7: mappings_to_submit is, in the order imdb then tvdb, the imdb pair iff
\* the IMDb id is not in the snapshot's imdb values, and the tvdb pair iff the
\* item is TV, a non-empty TVDB id was found and its string is not in the
\* snapshot's tvdb values.
C7_MappingsToSubmit ==
    AfterSplit =>
        mappings_to_submit =
            (IF imdb_id \notin Snapshot("imdb")
             THEN <<Pair("imdb", imdb_id)>> ELSE <<>>)
            \o (IF /\ media_type = "tv"
                   /\ IdTruthy(FoundTvdb)
                   /\ IdToStr(FoundTvdb) \notin Snapshot("tvdb")
                THEN <<Pair("tvdb", IdToStr(FoundTvdb))>> ELSE <<>>)

\* C7's case: a TV item whose integer TVDB id is listed, as a string, after
\* the imdb pair.
C7_Witness ==
    /\ AfterSplit
    /\ media_type = "tv"
    /\ tvdb_id = IdInt("100")
    /\ Len(mappings_to_submit) = 2
    /\ mappings_to_submit[2] = Pair("tvdb", IdStr("100"))

(***************************************************************************)
(* _make_request: the retry loop around requests.request.                  *)
(***************************************************************************)
REQUEST_TIMEOUT == 10
MAX_RETRIES == 3
RETRY_DELAY == 1

\* The requests the collector makes: the method and the endpoint
Endpoints ==
    {[method |-> "GET", url |-> "tmdb_search"],
     [method |-> "GET", url |-> "tmdb_external_ids"],
     [method |-> "GET", url |-> "tmdb_details"],
     [method |-> "GET", url |-> "mdblist"],
     [method |-> "GET", url |-> "pmdb_mappings"],
     [method |-> "GET", url |-> "pmdb_ratings"],
     [method |-> "POST", url |-> "pmdb_mappings"],
     [method |-> "POST", url |-> "pmdb_ratings"]}

\* The 'timeout' of the kwargs: not given (every caller of the file), or given
Timeouts == {NoTimeout, [given |-> TRUE, seconds |-> 30]}

\* kwargs.setdefault('timeout', REQUEST_TIMEOUT)
SetDefaultTimeout(timeout) ==
    IF timeout.given THEN timeout ELSE [given |-> TRUE, seconds |-> REQUEST_TIMEOUT]

\* How one attempt ends: a response whose status is fine, a timeout, a response
\* whose status raise_for_status rejects, or another request error
Outcomes == {"response", "timeout", "http_error", "connection_error"}

Attempted(kind, n) == [kind |-> kind, n |-> n]
Slept(seconds) == [kind |-> "sleep", n |-> seconds]

\* "if attempt == MAX_RETRIES - 1" with the test one too far
MutLastAttempt(a) == a = MAX_RETRIES

\* if attempt == MAX_RETRIES - 1
LastAttempt(a) == a = MAX_RETRIES - 1

InitRequest ==
    /\ pc = "called"
    /\ \E e \in Endpoints, timeout \in Timeouts :
          request = [method |-> e.method, url |-> e.url, timeout |-> timeout]
    /\ attempt = 0
    /\ events = <<>>
    /\ response = NoResponse
    /\ data = NoData
    /\ result = Running(NoRatings)
    /\ ItemIdle

\* The call starts: the default timeout is set and the loop entered
EnterLoop ==
    /\ pc = "called"
    /\ request' = [request EXCEPT !.timeout = SetDefaultTimeout(@)]
    /\ attempt' = 0
    /\ pc' = IF 0 < MAX_RETRIES THEN "request" ELSE "returned_none"
    /\ UNCHANGED <<events, response, parseVars, itemVars>>

\* One pass of the loop body: requests.request, raise_for_status, the handlers
SendRequest ==
    /\ pc = "request"
    /\ \E outcome \in Outcomes :
          /\ events' = Append(events, Attempted(outcome, attempt))
          /\ IF outcome = "response"
             THEN /\ response' = [nil |-> FALSE, status |-> "ok"]
                  /\ pc' = "returned"
             ELSE /\ pc' = IF LastAttempt(attempt) THEN "api_error" ELSE "sleep"
                  /\ UNCHANGED response
    /\ UNCHANGED <<request, attempt, parseVars, itemVars>>

\* time.sleep(RETRY_DELAY), then the next pass, or the end of the loop
Sleep ==
    /\ pc = "sleep"
    /\ events' = Append(events, Slept(RETRY_DELAY))
    /\ attempt' = attempt + 1
    /\ pc' = IF attempt' < MAX_RETRIES THEN "request" ELSE "returned_none"
    /\ UNCHANGED <<request, response, parseVars, itemVars>>

NextRequest == EnterLoop \/ SendRequest \/ Sleep

\* A call that runs goes on: every attempt ends (by a response, an error or
\* the timeout) and every sleep ends.
SpecRequest == InitRequest /\ [][NextRequest]_vars /\ WF_vars(NextRequest)

(***************************************************************************)
(* Claim about _make_request, checked under SpecRequest.                   *)
(***************************************************************************)
RequestEnded == pc \in {"returned", "api_error", "returned_none"}

Attempts == {i \in 1..Len(events) : events[i].kind # "sleep"}
Failures == {i \in Attempts : events[i].kind # "response"}
Sleeps == {i \in 1..Len(events) : events[i].kind = "sleep"}

\* What C12 says of every state of a call
C12_AttemptsAndWaits ==
    /\ Cardinality(Attempts) <= MAX_RETRIES
    /\ pc # "returned_none"
    /\ RequestEnded => Cardinality(Attempts) >= 1
    \* the first response is returned and nothing is tried after it
    /\ \A i \in Attempts :
          events[i].kind = "response" =>
             /\ i = Len(events)
             /\ pc = "returned"
             /\ ~response.nil
    /\ pc = "returned" => events[Len(events)].kind = "response"
    \* APIError after MAX_RETRIES failures, and only then
    /\ pc = "api_error" <=> Cardinality(Failures) = MAX_RETRIES
    \* a wait of RETRY_DELAY follows a failure and comes before the next attempt
    /\ \A i \in Sleeps :
          /\ events[i].n = RETRY_DELAY
          /\ i - 1 \in Failures
          /\ (i + 1 \in 1..Len(events)) => i + 1 \in Attempts
          /\ (i = Len(events)) => pc = "request"
    \* between two attempts there is a wait
    /\ \A i \in Attempts : (i > 1) => i - 1 \in Sleeps

\* C12: every call of _make_request makes at least 1 and at most MAX_RETRIES
\* attempts and then ends: it returns the first response and tries nothing
\* after it, raises APIError when all MAX_RETRIES attempts fail, never returns
\* without a response, and waits RETRY_DELAY between a failed attempt and the
\* next one but not after the last.
C12_MakeRequestEnds == []C12_AttemptsAndWaits /\ <>RequestEnded

\* C12's case: three failed attempts, two waits, APIError.
C12_Witness ==
    /\ pc = "api_error"
    /\ Cardinality(Failures) = MAX_RETRIES
    /\ Cardinality(Sleeps) = MAX_RETRIES - 1
    /\ events[Len(events)].kind = "timeout"

(***************************************************************************)
(* Claim about the order of prompts and writes in process_item, checked    *)
(* under Spec on the log of the run.                                       *)
(***************************************************************************)
Kind(kind) == {i \in 1..Len(log) : log[i].kind = kind}

\* The prompts of the given kind answered y, yes or with nothing
Accepted(kind) == {i \in Kind(kind) : log[i].key \in {"y", "yes", ""}}
Declined(kind) == Kind(kind) \ Accepted(kind)

\* The run ended before step 5: empty title, no search results, a cancelled or
\* invalid selection, or no IMDb id
EndedEarly == pc = "done" /\ ~IdTruthy(imdb_id)

\* C13: in every run of process_item submit_mapping is called only after the
\* mapping prompt was answered y/yes/empty and submit_rating only after the
\* ratings prompt was answered y/yes/empty; every mapping submission comes
\* before every rating submission; a declined mapping prompt is followed by the
\* ratings prompt when there are new ratings; a run that ends early submits
\* nothing.
C13_NoWriteWithoutConfirmation ==
    /\ \A i \in Kind("submit_mapping") : \E k \in Accepted("confirm_mappings") : k < i
    /\ \A i \in Kind("submit_rating") : \E k \in Accepted("confirm_ratings") : k < i
    /\ \A i \in Kind("submit_mapping") : \A k \in Kind("submit_rating") : i < k
    /\ \A i \in Declined("confirm_mappings") :
          new_ratings # NoRatings =>
             \/ pc = "confirm_ratings"
             \/ \E k \in Kind("confirm_ratings") : i < k
    /\ EndedEarly => Kind("submit_mapping") \cup Kind("submit_rating") = {}
    /\ pc = "submit_mappings" => Accepted("confirm_mappings") # {}
    /\ pc = "submit_ratings" => Accepted("confirm_ratings") # {}

\* C13's case: a run that declined the mappings, was still asked about the
\* ratings, accepted and wrote a rating.
C13_Witness ==
    /\ Declined("confirm_mappings") # {}
    /\ Accepted("confirm_ratings") # {}
    /\ Kind("submit_rating") # {}
    /\ pc = "done"

====
